---- MODULE Spec2Model ----
(***************************************************************************)
(* Stash-MCP: the TransactionManager (src/stash_mcp/transactions.py), the  *)
(* git sync loop (src/stash_mcp/main.py) and the git commands they run     *)
(* (src/stash_mcp/git_backend.py), as one state machine.                   *)
(*                                                                         *)
(* Granularity: the program runs on one asyncio event loop, so a coroutine *)
(* runs atomically from one await to the next.  Every action below is one  *)
(* such stretch of a coroutine, or the run of one git command in a worker  *)
(* thread (asyncio.to_thread).  asyncio.wait_for awaits lock.acquire()     *)
(* directly (CPython >= 3.12), so a granted acquire and the assignments    *)
(* that follow it in start_transaction are one stretch.                    *)
(***************************************************************************)
EXTENDS Integers, Sequences, FiniteSets, TLC

\* ---------------------------------------------------------------- bounds
MaxTxn == 2          \* transactions that tasks, calls or waiting owners still refer to
MaxCalls == 2        \* end/abort calls in flight at once
MaxWaiters == 1      \* start_transaction calls queued on the lock at once
MaxOrphans == 1      \* reset_hard threads running on after their task was cancelled
MaxContent == 1      \* file contents: 0 = the file does not exist, 1.. = texts

Sessions == {"s1", "s2"}
NoSession == "None"                 \* Python None for _active_session
NoTxn == 0                          \* Python None for _active_id / _timeout_task
TxnIds == 1..MaxTxn
Paths == {"p"}
CallSlots == 1..MaxCalls
Content == 1..MaxContent

VARIABLES
    active_session,   \* TransactionManager._active_session
    active_id,        \* TransactionManager._active_id
    timeout_task,     \* TransactionManager._timeout_task (the txn whose task it is)
    locked,           \* asyncio.Lock._locked of TransactionManager._lock
    waiters,          \* asyncio.Lock._waiters: start_transaction calls waiting
    GIT_SYNC_ENABLED, \* Config.GIT_SYNC_ENABLED: the sync loop runs and commits are pushed
    sync_event,       \* main.py sync_event: TRUE = set = sync allowed
    deadline,         \* the _auto_abort task created for each txn: its position, and
                      \* the session whose start_transaction created it
    calls,            \* end_transaction / abort_transaction calls in flight
    orphans,          \* reset_hard threads still running after their task was cancelled
    syncPc,           \* position of _git_sync_loop
    tree,             \* working tree: path -> content
    head,             \* HEAD revision: path -> content
    result,           \* what the last finished call of a TransactionManager method
                      \* returned ("ok") or raised (the MCP tools re-raise a
                      \* TransactionError as ValueError with the same message)
    \* history variable (read by the properties only)
    preTree,          \* working tree when the latest txn was started
    \* GitBackend.pull and the remote it pulls from
    remote,           \* tip of the remote branch: path -> content
    incoming,         \* the remote tip is a revision HEAD does not contain
    pullT,            \* the worker thread that runs GitBackend.pull
    pull_result,      \* the PullResult of the last pull that returned
    \* components that are modelled in specifications of their own
    blame,            \* a run of _parse_blame_porcelain: its input and locals
    doc,              \* a content file as the MCP write tools see it
    repo_config,      \* .git/config of the content repository, and the
                      \* GitBackend method that works on it
    startup           \* the process from its entry point to serving

mgrVars == <<active_session, active_id, timeout_task>>
cfgVars == <<GIT_SYNC_ENABLED, sync_event>>
lockVars == <<locked, waiters>>
gitVars == <<tree, head>>
histVars == <<preTree>>
pullVars == <<remote, incoming, pullT, pull_result>>
otherVars == <<blame, doc, repo_config, startup>>
vars == <<active_session, active_id, timeout_task, locked, waiters,
          GIT_SYNC_ENABLED, sync_event,
          deadline, calls, orphans, syncPc, tree, head,
          result, preTree, remote, incoming, pullT, pull_result, blame, doc, repo_config,
          startup>>

\* What a call of operation op returned ("ok") or raised.
Outcome(op, res) == [op |-> op, res |-> res]
NoResult == Outcome("none", "none")
\* A raised exception together with its message, where the code has several.
Raised(op, res, msg) == [op |-> op, res |-> res, msg |-> msg]
\* A write or delete that was carried out, with the path it was given.
Written(op, path) == [op |-> op, res |-> "ok", path |-> path]

\* No deadline task (never created, returned, or cancelled).
\* The repository's configuration is not looked at.
NoRepoConfig == [pc |-> "none"]
\* Startup is over: the server is serving.
Serving == [pc |-> "serving"]
\* No content file is looked at.
NoDoc == [pc |-> "none"]
\* _parse_blame_porcelain is not running.
NoBlame == [pc |-> "idle"]
\* GitBackend.pull is not running.
NoPull == [pc |-> "idle"]
\* PullResult (git_backend.py): the categorised path lists of a pull.
PullResult(success, added, modified, deleted) ==
    [success |-> success, added_files |-> added, modified_files |-> modified,
     deleted_files |-> deleted]
NoPullResult == [success |-> "none"]
NoTask == [pc |-> "none", session |-> NoSession]

RemoveAt(seq, i) == [j \in 1..(Len(seq) - 1) |-> IF j < i THEN seq[j] ELSE seq[j + 1]]

Init ==
    /\ active_session = NoSession
    /\ active_id = NoTxn
    /\ timeout_task = NoTxn
    /\ locked = FALSE
    /\ waiters = <<>>
    /\ GIT_SYNC_ENABLED \in BOOLEAN
    /\ sync_event = TRUE
    /\ deadline = [t \in TxnIds |-> NoTask]
    /\ calls = <<>>
    /\ orphans = 0
    /\ syncPc = "sleep"
    /\ head = [p \in Paths |-> 0]
    /\ tree = head
    /\ result = NoResult
    /\ preTree = head
    /\ remote = head
    /\ incoming = FALSE
    /\ pullT = NoPull
    /\ pull_result = NoPullResult
    /\ blame = NoBlame
    /\ doc = NoDoc
    /\ repo_config = NoRepoConfig
    /\ startup = Serving

\* ------------------------------------------------------------ fault models
\* Variants of single definitions, each with one plausible programming error;
\* the properties further down are required to tell them from the code.

\* acquire() that does not look at the holder.
LockAcquirable_ignoring_holder == TRUE

\* Ownership check that only asks whether some session owns a transaction.
_validate_session_any_owner(session_id) == active_session # NoSession

\* Cleanup that forgets to release the lock.
_clear_and_release_no_release ==
    /\ active_session' = NoSession
    /\ active_id' = NoTxn
    /\ sync_event' = TRUE
    /\ GIT_SYNC_ENABLED' = GIT_SYNC_ENABLED
    /\ UNCHANGED lockVars

\* end/abort without try/finally: the cleanup is skipped when git raises.
CallFinally_no_finally(c) ==
    /\ c \in 1..Len(calls)
    /\ calls[c].th \in {"ok", "fail"}
    /\ ~(calls[c].phase = "commit" /\ calls[c].th = "ok" /\ calls[c].push)
    /\ IF calls[c].th = "ok"
       THEN /\ active_session' = NoSession
            /\ active_id' = NoTxn
            /\ sync_event' = TRUE
            /\ locked' = FALSE
            /\ waiters' = IF waiters = <<>> THEN waiters
                          ELSE [waiters EXCEPT ![1].woken = TRUE]
       ELSE UNCHANGED <<active_session, active_id, sync_event, locked, waiters>>
    /\ calls' = RemoveAt(calls, c)
    /\ result' = Outcome(calls[c].kind,
                         IF calls[c].th = "ok" THEN "ok" ELSE "RuntimeError")
    /\ UNCHANGED <<GIT_SYNC_ENABLED, timeout_task, deadline, orphans, syncPc,
                   gitVars, histVars, pullVars, otherVars>>

\* _auto_abort that returns after its sleep without aborting.
DeadlineFire_returns(t) ==
    /\ deadline[t].pc = "sleeping"
    /\ deadline' = [deadline EXCEPT ![t] = NoTask]
    /\ UNCHANGED <<mgrVars, lockVars, cfgVars, calls, orphans, syncPc,
                   gitVars, result, histVars, pullVars, otherVars>>

\* ------------------------------------------------------------ asyncio.Lock
\* Lock.acquire() returns at once when the lock is free and nobody waits.
LockAcquirable == ~locked /\ waiters = <<>>

\* Fault model of Lock.release(): the lock is unlocked and nobody is woken.
LockRelease_no_wakeup ==
    /\ locked' = FALSE
    /\ waiters' = waiters

\* Lock.release(): unlock and wake the first waiter.
LockRelease ==
    /\ locked' = FALSE
    /\ waiters' = IF waiters = <<>> THEN waiters
                  ELSE [waiters EXCEPT ![1].woken = TRUE]

\* ------------------------------------------------------- internal helpers
_validate_session(session_id) == active_session = session_id

\* Fault model of lines 202-205: only a deadline task that still sleeps is
\* cancelled; one that awaits its reset_hard thread is left to finish.
_cancel_timeout_sleeping_only ==
    /\ deadline' = IF timeout_task # NoTxn /\ deadline[timeout_task].pc = "sleeping"
                   THEN [deadline EXCEPT ![timeout_task] = NoTask]
                   ELSE deadline
    /\ orphans' = orphans
    /\ timeout_task' = NoTxn

\* Task.cancel() of the deadline task: a task that sleeps returns, a task that
\* awaits its reset_hard thread ends with CancelledError (never reaching the
\* cleanup) while the thread itself runs on.
_cancel_timeout ==
    /\ timeout_task # NoTxn /\ deadline[timeout_task].pc = "reset_running"
         => orphans < MaxOrphans
    /\ deadline' = IF timeout_task # NoTxn
                   THEN [deadline EXCEPT ![timeout_task] = NoTask]
                   ELSE deadline
    /\ orphans' = IF timeout_task # NoTxn /\ deadline[timeout_task].pc = "reset_running"
                  THEN orphans + 1 ELSE orphans
    /\ timeout_task' = NoTxn

\* Fault model of lines 207-213: the cleanup forgets the owner.
_clear_and_release_keeps_owner ==
    /\ active_session' = active_session
    /\ active_id' = NoTxn
    /\ sync_event' = TRUE
    /\ GIT_SYNC_ENABLED' = GIT_SYNC_ENABLED
    /\ IF locked THEN LockRelease ELSE UNCHANGED lockVars

\* Fault model of lines 207-213: the cleanup does not call the resume
\* callback.
_clear_and_release_no_resume ==
    /\ active_session' = NoSession
    /\ active_id' = NoTxn
    /\ sync_event' = sync_event
    /\ GIT_SYNC_ENABLED' = GIT_SYNC_ENABLED
    /\ IF locked THEN LockRelease ELSE UNCHANGED lockVars

\* The cleanup step.
_clear_and_release ==
    /\ active_session' = NoSession
    /\ active_id' = NoTxn
    /\ sync_event' = TRUE
    /\ GIT_SYNC_ENABLED' = GIT_SYNC_ENABLED
    /\ IF locked THEN LockRelease ELSE UNCHANGED lockVars

\* Line 211 runs before lines 212-213: the resume callback is invoked with
\* the lock in the state in which the cleanup step found it.
LockedAtResume == locked

\* Lines 104-116: the pause callback is invoked after the acquire, with the
\* lock held, and before start_transaction returns.
LockedAtPause == TRUE

\* ------------------------------------------------------ start_transaction
\* uuid.uuid4() returns a value that nothing in the program refers to: no
\* recorded id, no pending deadline task, no call in flight.
Referenced(t) ==
    \/ active_id = t
    \/ deadline[t] # NoTask
    \/ \E c \in 1..Len(calls) : calls[c].txn = t
FreshIds == {t \in TxnIds : ~Referenced(t)}
uuid4 == CHOOSE t \in FreshIds : \A u \in FreshIds : t <= u

\* Lines 111-124: the lock has been granted to session_id.
StartGranted(session_id) ==
    /\ FreshIds # {}
    /\ locked' = TRUE
    /\ active_session' = session_id
    /\ active_id' = uuid4
    /\ sync_event' = FALSE
    /\ GIT_SYNC_ENABLED' = GIT_SYNC_ENABLED
    /\ timeout_task' = uuid4
    /\ deadline' = [deadline EXCEPT ![uuid4] = [pc |-> "sleeping", session |-> session_id]]
    /\ result' = Outcome("start", "ok")
    /\ preTree' = tree
    /\ UNCHANGED <<calls, orphans, syncPc, gitVars, pullVars, otherVars>>

\* Fault model: start_transaction without the test of lines 99-102, so that
\* the owner's second start goes on to the lock.
start_transaction_no_owner_test(session_id) ==
    IF LockAcquirable
    THEN StartGranted(session_id) /\ waiters' = waiters
    ELSE /\ Len(waiters) < MaxWaiters
         /\ waiters' = Append(waiters, [s |-> session_id, woken |-> FALSE])
         /\ UNCHANGED <<mgrVars, locked, cfgVars, deadline, calls, orphans,
                        syncPc, gitVars, result, histVars, pullVars, otherVars>>

start_transaction(session_id) ==
    IF active_session = session_id
    THEN /\ result' = Raised("start", "TransactionError", "already active")
         /\ UNCHANGED <<mgrVars, lockVars, cfgVars, deadline, calls, orphans,
                        syncPc, gitVars, histVars, pullVars, otherVars>>
    ELSE IF LockAcquirable
    THEN StartGranted(session_id) /\ waiters' = waiters
    ELSE /\ Len(waiters) < MaxWaiters
         /\ waiters' = Append(waiters, [s |-> session_id, woken |-> FALSE])
         /\ UNCHANGED <<mgrVars, locked, cfgVars, deadline, calls, orphans,
                        syncPc, gitVars, result, histVars, pullVars, otherVars>>

\* The first waiter was woken by release() and runs: it takes the lock.
StartWaiterGranted ==
    /\ waiters # <<>>
    /\ waiters[1].woken
    /\ ~locked
    /\ StartGranted(waiters[1].s)
    /\ waiters' = Tail(waiters)

\* Fault model: the timeout raises but the cancelled acquire stays in the
\* lock's queue.
StartWaiterTimeout_stays_queued(i) ==
    /\ i \in 1..Len(waiters)
    /\ waiters' = waiters
    /\ result' = Raised("start", "TransactionError", "lock unavailable")
    /\ UNCHANGED <<mgrVars, locked, cfgVars, deadline, calls, orphans,
                   syncPc, gitVars, histVars, pullVars, otherVars>>

\* wait_for's timeout cancels the acquire: the waiter leaves the queue, hands a
\* wake-up it had received to the next waiter, and the call raises
\* TransactionError("Transaction lock unavailable, try again later.").
StartWaiterTimeout(i) ==
    /\ i \in 1..Len(waiters)
    /\ LET rest == RemoveAt(waiters, i)
       IN waiters' = IF ~locked /\ rest # <<>>
                     THEN [rest EXCEPT ![1].woken = TRUE] ELSE rest
    /\ result' = Raised("start", "TransactionError", "lock unavailable")
    /\ UNCHANGED <<mgrVars, locked, cfgVars, deadline, calls, orphans,
                   syncPc, gitVars, histVars, pullVars, otherVars>>

\* ------------------------------------------------------------ git commands
\* Fault model: `git add -u`, which stages tracked paths only.
git_add_tracked_only == [p \in DOMAIN tree |-> IF head[p] # 0 THEN tree[p] ELSE head[p]]

\* git add -A
git_add == tree

\* git reset --hard HEAD: every path that HEAD tracks gets its HEAD content; a
\* path that HEAD does not know (untracked) is left as it is.
git_reset_hard == [p \in DOMAIN tree |-> IF head[p] # 0 THEN head[p] ELSE tree[p]]

\* GitBackend.commit in a worker thread: add -A, then commit.  The command
\* fails when nothing is staged against HEAD, and may fail otherwise.
commit(ok) ==
    \/ /\ ok
       /\ git_add # head
       /\ head' = git_add
       /\ tree' = tree
    \/ /\ ~ok
       /\ UNCHANGED gitVars

\* GitBackend.reset_hard in a worker thread.
reset_hard(ok) ==
    \/ /\ ok
       /\ tree' = git_reset_hard
       /\ head' = head
    \/ /\ ~ok
       /\ UNCHANGED gitVars

ThreadResult(ok) == IF ok THEN "ok" ELSE "fail"

\* -------------------------------------------- end_transaction / abort_transaction

\* Lines 147-151: ownership check, cancel the deadline task, start the commit.
end_transaction(session_id, push) ==
    IF ~_validate_session(session_id)
    THEN /\ result' = Outcome("end", "TransactionError")
         /\ UNCHANGED <<mgrVars, lockVars, cfgVars, deadline, calls, orphans,
                        syncPc, gitVars, histVars, pullVars, otherVars>>
    ELSE /\ Len(calls) < MaxCalls
         /\ _cancel_timeout
         /\ calls' = Append(calls, [kind |-> "end", txn |-> active_id,
                                    phase |-> "commit", th |-> "running",
                                    push |-> push])
         /\ UNCHANGED <<active_session, active_id, lockVars, cfgVars, syncPc,
                        gitVars, result, histVars, pullVars, otherVars>>

\* The commit tool of the MCP server: a push target is passed when sync is on.
commit_content_transaction(session_id) == end_transaction(session_id, GIT_SYNC_ENABLED)

\* Lines 166-170: ownership check, cancel the deadline task, start the reset.
abort_transaction(session_id) ==
    IF ~_validate_session(session_id)
    THEN /\ result' = Outcome("abort", "TransactionError")
         /\ UNCHANGED <<mgrVars, lockVars, cfgVars, deadline, calls, orphans,
                        syncPc, gitVars, histVars, pullVars, otherVars>>
    ELSE /\ Len(calls) < MaxCalls
         /\ _cancel_timeout
         /\ calls' = Append(calls, [kind |-> "abort", txn |-> active_id,
                                    phase |-> "reset", th |-> "running",
                                    push |-> FALSE])
         /\ UNCHANGED <<active_session, active_id, lockVars, cfgVars, syncPc,
                        gitVars, result, histVars, pullVars, otherVars>>

\* The worker thread of call c runs its git command.
CallThreadRun(c, ok) ==
    /\ c \in 1..Len(calls)
    /\ calls[c].th = "running"
    /\ \/ calls[c].phase = "commit" /\ commit(ok)
       \/ calls[c].phase = "push" /\ UNCHANGED gitVars
       \/ calls[c].phase = "reset" /\ reset_hard(ok)
    /\ calls' = [calls EXCEPT ![c].th = ThreadResult(ok)]
    /\ UNCHANGED <<mgrVars, lockVars, cfgVars, deadline, orphans, syncPc, result, histVars, pullVars, otherVars>>

\* Fault model of lines 150-153: the push is started whatever the outcome of
\* the commit was.
EndPush_after_any_commit(c) ==
    /\ c \in 1..Len(calls)
    /\ calls[c].phase = "commit"
    /\ calls[c].th \in {"ok", "fail"}
    /\ calls[c].push
    /\ calls' = [calls EXCEPT ![c].phase = "push", ![c].th = "running"]
    /\ UNCHANGED <<mgrVars, lockVars, cfgVars, deadline, orphans, syncPc,
                   gitVars, result, histVars, pullVars, otherVars>>

\* Lines 152-153: the commit succeeded and a push target was given.
EndPush(c) ==
    /\ c \in 1..Len(calls)
    /\ calls[c].phase = "commit"
    /\ calls[c].th = "ok"
    /\ calls[c].push
    /\ calls' = [calls EXCEPT ![c].phase = "push", ![c].th = "running"]
    /\ UNCHANGED <<mgrVars, lockVars, cfgVars, deadline, orphans, syncPc,
                   gitVars, result, histVars, pullVars, otherVars>>

\* Lines 154-155 and 171-172: the finally block, then the call returns or
\* re-raises the RuntimeError of the git command.
CallFinally(c) ==
    /\ c \in 1..Len(calls)
    /\ calls[c].th \in {"ok", "fail"}
    /\ ~(calls[c].phase = "commit" /\ calls[c].th = "ok" /\ calls[c].push)
    /\ _clear_and_release
    /\ calls' = RemoveAt(calls, c)
    /\ result' = Outcome(calls[c].kind,
                         IF calls[c].th = "ok" THEN "ok" ELSE "RuntimeError")
    /\ UNCHANGED <<timeout_task, deadline, orphans, syncPc, gitVars,
                   preTree, pullVars, otherVars>>

\* -------------------------------------------------------------- _auto_abort
\* Lines 177-188: the sleep is over; return if no txn is recorded, else start
\* the reset.
DeadlineFire(t) ==
    /\ deadline[t].pc = "sleeping"
    /\ IF active_id = NoTxn
       THEN deadline' = [deadline EXCEPT ![t] = NoTask]
       ELSE deadline' = [deadline EXCEPT ![t].pc = "reset_running"]
    /\ UNCHANGED <<mgrVars, lockVars, cfgVars, calls, orphans, syncPc,
                   gitVars, result, histVars, pullVars, otherVars>>

DeadlineThreadRun(t, ok) ==
    /\ deadline[t].pc = "reset_running"
    /\ reset_hard(ok)
    /\ deadline' = [deadline EXCEPT ![t].pc = "reset_done"]
    /\ UNCHANGED <<mgrVars, lockVars, cfgVars, calls, orphans, syncPc, result, histVars, pullVars, otherVars>>

\* Lines 189-192: a failed reset is logged; then the cleanup step.
DeadlineCleanup(t) ==
    /\ deadline[t].pc = "reset_done"
    /\ _clear_and_release
    /\ deadline' = [deadline EXCEPT ![t] = NoTask]
    /\ UNCHANGED <<timeout_task, calls, orphans, syncPc, gitVars,
                   result, preTree, pullVars, otherVars>>

\* A reset_hard thread whose deadline task was cancelled runs its command.
OrphanThreadRun(ok) ==
    /\ orphans > 0
    /\ reset_hard(ok)
    /\ orphans' = orphans - 1
    /\ UNCHANGED <<mgrVars, lockVars, cfgVars, deadline, calls, syncPc, result, histVars, pullVars, otherVars>>

\* ------------------------------------------------------------ gated writes
_require_active_transaction(caller) ==
    /\ active_id # NoTxn
    /\ ~(caller # NoSession /\ caller # active_session)

write_file(caller, path, content) ==
    /\ IF _require_active_transaction(caller)
       THEN /\ tree' = [tree EXCEPT ![path] = content]
            /\ result' = Written("write", path)
       ELSE /\ tree' = tree
            /\ result' = Outcome("write", "TransactionError")
    /\ UNCHANGED <<mgrVars, lockVars, cfgVars, deadline, calls, orphans,
                   syncPc, head, histVars, pullVars, otherVars>>

delete_file(caller, path) ==
    /\ IF ~_require_active_transaction(caller)
       THEN /\ tree' = tree
            /\ result' = Outcome("delete", "TransactionError")
       ELSE IF tree[path] = 0
       THEN /\ tree' = tree
            /\ result' = Outcome("delete", "FileNotFoundError")
       ELSE /\ tree' = [tree EXCEPT ![path] = 0]
            /\ result' = Written("delete", path)
    /\ UNCHANGED <<mgrVars, lockVars, cfgVars, deadline, calls, orphans,
                   syncPc, head, histVars, pullVars, otherVars>>

\* ---------------------------------------------------------- _git_sync_loop
\* Lines 177-190: one tick: pull when the event is set, else skip.
SyncTick ==
    /\ GIT_SYNC_ENABLED
    /\ syncPc = "sleep"
    /\ IF sync_event
       THEN syncPc' = "pull_running"
       ELSE syncPc' = syncPc
    /\ UNCHANGED <<mgrVars, lockVars, cfgVars, deadline, calls, orphans,
                   gitVars, result, histVars, pullVars, otherVars>>

\* Lines 178-193: GitBackend.pull has run in its worker thread (with success
\* or not); the result is logged and emitted, then the loop sleeps.
SyncSleep(ok) ==
    /\ syncPc = "pull_running"
    /\ syncPc' = "sleep"
    /\ UNCHANGED <<mgrVars, lockVars, cfgVars, deadline, calls, orphans,
                   gitVars, result, histVars, pullVars, otherVars>>

Next ==
    \/ \E s \in Sessions : start_transaction(s)
    \/ StartWaiterGranted
    \/ \E i \in 1..MaxWaiters : StartWaiterTimeout(i)
    \/ \E s \in Sessions : commit_content_transaction(s)
    \/ \E s \in Sessions : abort_transaction(s)
    \/ \E c \in CallSlots, ok \in BOOLEAN : CallThreadRun(c, ok)
    \/ \E c \in CallSlots : EndPush(c)
    \/ \E c \in CallSlots : CallFinally(c)
    \/ \E t \in TxnIds : DeadlineFire(t)
    \/ \E t \in TxnIds, ok \in BOOLEAN : DeadlineThreadRun(t, ok)
    \/ \E t \in TxnIds : DeadlineCleanup(t)
    \/ \E ok \in BOOLEAN : OrphanThreadRun(ok)
    \/ \E s \in Sessions, p \in Paths, c \in Content : write_file(s, p, c)
    \/ \E s \in Sessions, p \in Paths : delete_file(s, p)
    \/ SyncTick
    \/ \E ok \in BOOLEAN : SyncSleep(ok)

Spec == Init /\ [][Next]_vars

\* The same program seen without its sync loop: the loop's two steps read
\* sync_event and write syncPc only, so every other variable takes exactly the
\* same values under SpecTxn as under Spec.
TxnNext ==
    \/ \E s \in Sessions : start_transaction(s)
    \/ StartWaiterGranted
    \/ \E i \in 1..MaxWaiters : StartWaiterTimeout(i)
    \/ \E s \in Sessions : commit_content_transaction(s)
    \/ \E s \in Sessions : abort_transaction(s)
    \/ \E c \in CallSlots, ok \in BOOLEAN : CallThreadRun(c, ok)
    \/ \E c \in CallSlots : EndPush(c)
    \/ \E c \in CallSlots : CallFinally(c)
    \/ \E t \in TxnIds : DeadlineFire(t)
    \/ \E t \in TxnIds, ok \in BOOLEAN : DeadlineThreadRun(t, ok)
    \/ \E t \in TxnIds : DeadlineCleanup(t)
    \/ \E ok \in BOOLEAN : OrphanThreadRun(ok)
    \/ \E s \in Sessions, p \in Paths, c \in Content : write_file(s, p, c)
    \/ \E s \in Sessions, p \in Paths : delete_file(s, p)

SpecTxn == Init /\ [][TxnNext]_vars

\* A deployment in which no owner ever calls end or abort: sessions start
\* transactions and write, and the only end/abort calls come from sessions
\* that do not own the transaction.  The deadline task is an asyncio task: its sleep ends after
\* `timeout` seconds, its worker thread runs the git command, and the event
\* loop then resumes it; hence the weak fairness of its three steps.
AbsentOwnerNext ==
    \/ \E s \in Sessions : start_transaction(s)
    \/ StartWaiterGranted
    \/ \E i \in 1..MaxWaiters : StartWaiterTimeout(i)
    \/ \E t \in TxnIds : DeadlineFire(t)
    \/ \E t \in TxnIds, ok \in BOOLEAN : DeadlineThreadRun(t, ok)
    \/ \E t \in TxnIds : DeadlineCleanup(t)
    \/ \E s \in Sessions, p \in Paths, c \in Content : write_file(s, p, c)
    \/ \E s \in Sessions, p \in Paths : delete_file(s, p)
    \/ \E s \in Sessions : active_session # s /\ commit_content_transaction(s)
    \/ \E s \in Sessions : active_session # s /\ abort_transaction(s)

SpecAbsentOwner ==
    /\ Init
    /\ [][AbsentOwnerNext]_vars
    /\ \A t \in TxnIds : /\ WF_vars(DeadlineFire(t))
                         /\ WF_vars(\E ok \in BOOLEAN : DeadlineThreadRun(t, ok))
                         /\ WF_vars(DeadlineCleanup(t))

\* =============================================================== properties

\* A step in which start_transaction returns a transaction id to a session.
Granted == active_id' # active_id /\ active_id' # NoTxn

\* A step that runs the cleanup of an end/abort call or of a deadline task.
Cleanup ==
    \/ \E c \in CallSlots : CallFinally(c)
    \/ \E t \in TxnIds : DeadlineCleanup(t)

\* Transactions that were started and whose deadline task still sleeps: their
\* owner has not had an end or abort accepted (that cancels the task) and their
\* timeout has not elapsed.
Pending == {t \in TxnIds : deadline[t].pc = "sleeping"}

\* C1: at most one transaction is active: a transaction id is handed out only
\* in a state where no transaction, no owner and no lock holder is recorded,
\* i.e. after the previous transaction has been cleared.
C1_OneActive ==
    [][Granted => (active_id = NoTxn /\ active_session = NoSession /\ ~locked)]_vars

\* A second transaction runs after an earlier one committed.
C1_Witness ==
    /\ result = Outcome("start", "ok")
    /\ active_id # NoTxn
    /\ head # [p \in Paths |-> 0]

\* C2: while a transaction of session A is pending (neither ended by A nor
\* timed out), no other session B is recorded as owner.
C2_Exclusive ==
    \A t \in Pending :
        active_session # NoSession => deadline[t].session = active_session

\* C3: end_transaction and abort_transaction by a session that is not the
\* owner raise TransactionError and leave owner, id, lock, deadline tasks,
\* sync flag, calls in flight and the repository as they are.
C3_NonOwnerRejected ==
    [][\A s \in Sessions :
          (active_session # s
             /\ (commit_content_transaction(s) \/ abort_transaction(s)))
          => /\ result'.res = "TransactionError"
             /\ result'.op \in {"end", "abort"}
             /\ UNCHANGED <<mgrVars, lockVars, cfgVars, deadline, calls,
                            orphans, gitVars>>]_vars

\* A non-owner's end was rejected while a transaction was active, and the
\* transaction is intact.
C3_Witness ==
    /\ result = Outcome("end", "TransactionError")
    /\ active_id # NoTxn
    /\ locked
    /\ ~sync_event
    /\ deadline[active_id].pc = "sleeping"

\* C4: the cleanup step runs once per transaction: when an end/abort call
\* reaches its cleanup, the transaction it validated is still the recorded
\* one (no earlier cleanup has cleared it).
C4_CleanupOnce ==
    [][\A c \in CallSlots : CallFinally(c) => calls[c].txn = active_id]_vars

\* C5: after a cleanup the lock is free and no owner is recorded; whenever no
\* transaction is recorded the lock is free and the first waiter (if any) has
\* been woken; and a start_transaction made then, with nobody queued, succeeds
\* for any session with an id that nothing referred to.
C5_NextStartSucceeds ==
    /\ [](active_id = NoTxn =>
             /\ ~locked
             /\ active_session = NoSession
             /\ (waiters # <<>> => waiters[1].woken))
    /\ [][Cleanup => (~locked' /\ active_session' = NoSession
                        /\ active_id' = NoTxn)]_vars
    /\ [][\A s \in Sessions :
             (active_id = NoTxn /\ waiters = <<>> /\ start_transaction(s))
             => /\ result' = Outcome("start", "ok")
                /\ active_session' = s
                /\ active_id' # NoTxn
                /\ ~Referenced(active_id')
                /\ locked']_vars

\* A start succeeded although an earlier transaction had left a file behind
\* that it never committed.
C5_Witness ==
    /\ result = Outcome("start", "ok")
    /\ active_id # NoTxn
    /\ \E p \in Paths : tree[p] # 0 /\ head[p] = 0

\* C6: the cleanup of end_transaction and abort_transaction runs whether the
\* git command succeeded or raised: afterwards the lock is free, no owner is
\* recorded and sync is allowed, and the call raises RuntimeError exactly when
\* its git command failed.
C6_CleanupOnError ==
    [][\A c \in CallSlots :
          CallFinally(c)
          => /\ ~locked'
             /\ active_session' = NoSession
             /\ active_id' = NoTxn
             /\ sync_event'
             /\ result'.op = calls[c].kind
             /\ (result'.res = "RuntimeError") = (calls[c].th = "fail")
             /\ (result'.res = "ok") = (calls[c].th = "ok")]_vars

\* An end_transaction with nothing to commit raised, and nothing is locked.
C6_Witness ==
    /\ result = Outcome("end", "RuntimeError")
    /\ tree = head
    /\ ~locked
    /\ active_session = NoSession
    /\ sync_event
    /\ calls = <<>>

\* C7: when the owner never calls end or abort, every transaction is brought
\* to an end by its deadline task: the task's cleanup leaves the lock free and
\* no transaction recorded (whatever the reset returned), and a recorded
\* transaction is always eventually cleared.
C7_AutoAbort ==
    /\ [][\A t \in TxnIds :
             DeadlineCleanup(t)
             => (~locked' /\ active_id' = NoTxn /\ active_session' = NoSession)]_vars
    /\ \A t \in TxnIds : (active_id = t) ~> (active_id = NoTxn /\ ~locked)

\* A transaction is over although its deadline task was never cancelled.
C7_Witness ==
    /\ active_id = NoTxn
    /\ ~locked
    /\ timeout_task # NoTxn
    /\ deadline[timeout_task] = NoTask
    /\ result.op \in {"start", "write", "delete"}

\* C8: when the reset of an abort or of the deadline task has succeeded (and
\* no other call or thread is in flight), the working tree is what it was when
\* the transaction started.
C8_TreeRestored ==
    [][(\/ \E c \in CallSlots :
             /\ CallThreadRun(c, TRUE)
             /\ calls[c].phase = "reset"
             /\ calls[c].txn = active_id
             /\ Len(calls) = 1
             /\ orphans = 0
        \/ \E t \in TxnIds :
             /\ DeadlineThreadRun(t, TRUE)
             /\ t = active_id
             /\ calls = <<>>
             /\ orphans = 0)
       => tree' = preTree]_vars

\* C9: the sync loop starts no pull while a started transaction is pending.
C9_NoPullInTransaction ==
    [][(syncPc = "sleep" /\ syncPc' = "pull_running") => Pending = {}]_vars

\* C10: no pull of the sync loop is running while the lock is held.
C10_NoPullWhileLocked == ~(syncPc = "pull_running" /\ locked)

\* C11: on every termination path the resume callback is invoked after the
\* lock has been released.
C11_ResumeAfterRelease == [][Cleanup => ~LockedAtResume]_vars

\* ------------------------------------------------------------ REST API
\* create_api is given the bare FileSystem: PUT /api/content/{path} writes the
\* file and answers 200 (no TransactionManager method is called).
update_content(path, content) ==
    /\ tree' = [tree EXCEPT ![path] = content]
    /\ UNCHANGED <<mgrVars, lockVars, cfgVars, deadline, calls, orphans,
                   syncPc, head, result, histVars, pullVars, otherVars>>

\* DELETE /api/content/{path}: deletes the file, or answers 404.
delete_content(path) ==
    /\ tree' = [tree EXCEPT ![path] = 0]
    /\ UNCHANGED <<mgrVars, lockVars, cfgVars, deadline, calls, orphans,
                   syncPc, head, result, histVars, pullVars, otherVars>>

\* ------------------------------------------------------------ reads
\* What a read returned: the outcome with the returned value.
Returned(op, value) == [op |-> op, res |-> "ok", value |-> value]

\* FileSystem.read_file / file_exists / list_all_files / list_files on the
\* store as it is now.
fs_read_file(path) ==
    IF tree[path] = 0 THEN Outcome("read_file", "FileNotFoundError")
    ELSE Returned("read_file", tree[path])
fs_file_exists(path) == Returned("file_exists", tree[path] # 0)
fs_list_all_files == Returned("list_all_files", {p \in Paths : tree[p] # 0})
fs_list_files == Returned("list_files", {<<p, FALSE>> : p \in {q \in Paths : tree[q] # 0}})

\* Fault model: a read that is gated like a write.
read_file_gated(caller, path) ==
    /\ result' = IF _require_active_transaction(caller) THEN fs_read_file(path)
                 ELSE Outcome("read_file", "TransactionError")
    /\ UNCHANGED <<mgrVars, lockVars, cfgVars, deadline, calls, orphans,
                   syncPc, gitVars, histVars, pullVars, otherVars>>

\* TransactionManager.read_file and the other reads, lines 241-251: the call
\* is handed to the store whoever the caller is.
read_file(caller, path) ==
    /\ result' = fs_read_file(path)
    /\ UNCHANGED <<mgrVars, lockVars, cfgVars, deadline, calls, orphans,
                   syncPc, gitVars, histVars, pullVars, otherVars>>

file_exists(caller, path) ==
    /\ result' = fs_file_exists(path)
    /\ UNCHANGED <<mgrVars, lockVars, cfgVars, deadline, calls, orphans,
                   syncPc, gitVars, histVars, pullVars, otherVars>>

list_all_files(caller) ==
    /\ result' = fs_list_all_files
    /\ UNCHANGED <<mgrVars, lockVars, cfgVars, deadline, calls, orphans,
                   syncPc, gitVars, histVars, pullVars, otherVars>>

list_files(caller) ==
    /\ result' = fs_list_files
    /\ UNCHANGED <<mgrVars, lockVars, cfgVars, deadline, calls, orphans,
                   syncPc, gitVars, histVars, pullVars, otherVars>>

\* ============================================= the surfaces of the application
\* Who may call a gated method: an MCP session, or code that runs outside a
\* FastMCP request context, for which _get_current_session_id() returns None.
Callers == Sessions \cup {NoSession}

\* The application with clients that await an end/abort before the next one is
\* issued (no two end/abort calls in flight), seen with all its callers.
SurfaceNext ==
    \/ \E s \in Sessions : start_transaction(s)
    \/ StartWaiterGranted
    \/ \E i \in 1..MaxWaiters : StartWaiterTimeout(i)
    \/ \E s \in Sessions : calls = <<>> /\ commit_content_transaction(s)
    \/ \E s \in Sessions : calls = <<>> /\ abort_transaction(s)
    \/ \E c \in CallSlots, ok \in BOOLEAN : CallThreadRun(c, ok)
    \/ \E c \in CallSlots : EndPush(c)
    \/ \E c \in CallSlots : CallFinally(c)
    \/ \E t \in TxnIds : DeadlineFire(t)
    \/ \E t \in TxnIds, ok \in BOOLEAN : DeadlineThreadRun(t, ok)
    \/ \E t \in TxnIds : DeadlineCleanup(t)
    \/ \E ok \in BOOLEAN : OrphanThreadRun(ok)
    \/ \E s \in Callers, p \in Paths, c \in Content : write_file(s, p, c)
    \/ \E s \in Callers, p \in Paths : delete_file(s, p)
    \/ \E p \in Paths, c \in Content : update_content(p, c)
    \/ \E p \in Paths : delete_content(p)
    \/ \E s \in Callers, p \in Paths : read_file(s, p)
    \/ \E s \in Callers, p \in Paths : file_exists(s, p)
    \/ \E s \in Callers : list_all_files(s)
    \/ \E s \in Callers : list_files(s)

SpecSurface == Init /\ [][SurfaceNext]_vars

\* C12: the gate of write_file, delete_file, move_file and create_directory
\* lets a caller through only if that caller is a session and owns the active
\* transaction.
C12_GateOwnerOnly ==
    \A caller \in Callers :
        _require_active_transaction(caller)
        => (caller \in Sessions /\ active_id # NoTxn /\ caller = active_session)

\* C13: every write or delete that reaches the content store through the REST
\* API happens while a transaction is active.
C13_WritesUnderPermit ==
    [][((\E p \in Paths, c \in Content : update_content(p, c))
          \/ (\E p \in Paths : delete_content(p)))
       => active_id # NoTxn]_vars

\* C14: read_file, file_exists, list_all_files and list_files return what the
\* store returns, for every caller and in every transaction state, and change
\* nothing but the caller's result.
C14_ReadsPassThrough ==
    [][\A caller \in Callers :
          /\ \A p \in Paths :
                read_file(caller, p)
                => /\ result' = (IF tree[p] = 0
                                 THEN Outcome("read_file", "FileNotFoundError")
                                 ELSE Returned("read_file", tree[p]))
                   /\ UNCHANGED <<mgrVars, lockVars, cfgVars, deadline, calls,
                                  orphans, syncPc, gitVars>>
          /\ \A p \in Paths :
                file_exists(caller, p)
                => /\ result' = Returned("file_exists", tree[p] # 0)
                   /\ UNCHANGED <<mgrVars, lockVars, cfgVars, deadline, calls,
                                  orphans, syncPc, gitVars>>
          /\ list_all_files(caller)
                => /\ result'.res = "ok"
                   /\ \A p \in Paths : (tree[p] # 0) = (p \in result'.value)
                   /\ UNCHANGED <<mgrVars, lockVars, cfgVars, deadline, calls,
                                  orphans, syncPc, gitVars>>
          /\ list_files(caller)
                => /\ result'.res = "ok"
                   /\ \A p \in Paths : (tree[p] # 0) = (<<p, FALSE>> \in result'.value)
                   /\ UNCHANGED <<mgrVars, lockVars, cfgVars, deadline, calls,
                                  orphans, syncPc, gitVars>>]_vars

\* A file was read while a transaction was active.
C14_Witness ==
    /\ result.op = "read_file"
    /\ result.res = "ok"
    /\ active_id # NoTxn
    /\ locked

\* C15: a start_transaction by the recorded owner raises TransactionError
\* ("already active") at once, without queueing for the lock, and leaves id,
\* owner, deadline tasks, lock and sync flag as they are.
C15_OwnerRestartRejected ==
    [][\A s \in Sessions :
          (active_session = s /\ start_transaction(s))
          => /\ result' = Raised("start", "TransactionError", "already active")
             /\ UNCHANGED <<mgrVars, lockVars, cfgVars, deadline, calls,
                            orphans, gitVars>>]_vars

\* The owner's second start was rejected and its transaction is intact.
C15_Witness ==
    /\ result = Raised("start", "TransactionError", "already active")
    /\ active_id # NoTxn
    /\ locked
    /\ waiters = <<>>
    /\ ~sync_event
    /\ timeout_task = active_id
    /\ deadline[active_id].pc = "sleeping"

\* C16: a start_transaction whose wait for the lock times out raises
\* TransactionError ("lock unavailable"); owner, id, deadline tasks, sync flag,
\* lock state and working tree are as before (the call acquires nothing), and
\* the call has left the lock's queue, which keeps its other entries in order.
C16_LockWaitTimeout ==
    [][\A i \in 1..Len(waiters) :
          StartWaiterTimeout(i)
          => /\ result' = Raised("start", "TransactionError", "lock unavailable")
             /\ UNCHANGED <<mgrVars, locked, cfgVars, deadline, calls,
                            orphans, gitVars>>
             /\ Len(waiters') = Len(waiters) - 1
             /\ \A j \in 1..Len(waiters') :
                   waiters'[j].s = RemoveAt(waiters, i)[j].s]_vars

\* Another session held the lock throughout; the waiter timed out and is gone.
C16_Witness ==
    /\ result = Raised("start", "TransactionError", "lock unavailable")
    /\ locked
    /\ active_id # NoTxn
    /\ deadline[active_id].pc = "sleeping"
    /\ waiters = <<>>

\* The deadline task of the recorded handle is past its sleep: it has begun
\* (or finished) its reset and has not yet run the cleanup.
DeadlineBegun ==
    /\ timeout_task # NoTxn
    /\ deadline[timeout_task].pc \in {"reset_running", "reset_done"}

\* C17: in a race between the deadline task and the owner's end/abort only the
\* first takes effect: an end/abort called after the deadline task has begun
\* its reset is refused and starts no commit or reset, and the deadline task of
\* a transaction for which an end/abort is in flight runs no reset and no
\* cleanup.
C17_RaceSecondIsNoOp ==
    [][/\ \A s \in Sessions :
             (DeadlineBegun /\ (commit_content_transaction(s) \/ abort_transaction(s)))
             => (calls' = calls /\ orphans' = orphans
                 /\ result'.res = "TransactionError")
       /\ \A t \in TxnIds :
             (\E c \in 1..Len(calls) : calls[c].txn = t)
             => /\ ~DeadlineCleanup(t)
                /\ \A ok \in BOOLEAN : ~DeadlineThreadRun(t, ok)]_vars

\* ------------------------------------------------- commit of a transaction
\* Sessions that use the transaction tools one call at a time on a repository
\* of two paths, with deadlines long enough never to elapse: start, gated
\* writes and deletes, then end (commit, push when configured) or abort.
CommitPaths == {"p", "q"}

CommitInit ==
    /\ active_session = NoSession
    /\ active_id = NoTxn
    /\ timeout_task = NoTxn
    /\ locked = FALSE
    /\ waiters = <<>>
    /\ GIT_SYNC_ENABLED \in BOOLEAN
    /\ sync_event = TRUE
    /\ deadline = [t \in TxnIds |-> NoTask]
    /\ calls = <<>>
    /\ orphans = 0
    /\ syncPc = "sleep"
    /\ head \in [CommitPaths -> Content \cup {0}]
    /\ tree = head
    /\ result = NoResult
    /\ preTree = head
    /\ remote = head
    /\ incoming = FALSE
    /\ pullT = NoPull
    /\ pull_result = NoPullResult
    /\ blame = NoBlame
    /\ doc = NoDoc
    /\ repo_config = NoRepoConfig
    /\ startup = Serving

CommitNext ==
    \/ \E s \in Sessions : start_transaction(s)
    \/ StartWaiterGranted
    \/ \E i \in 1..MaxWaiters : StartWaiterTimeout(i)
    \/ \E s \in Sessions : calls = <<>> /\ commit_content_transaction(s)
    \/ \E s \in Sessions : calls = <<>> /\ abort_transaction(s)
    \/ \E c \in CallSlots, ok \in BOOLEAN : CallThreadRun(c, ok)
    \/ \E c \in CallSlots : EndPush(c)
    \/ \E c \in CallSlots : CallFinally(c)
    \/ \E s \in Sessions, p \in CommitPaths, c \in Content :
          calls = <<>> /\ write_file(s, p, c)
    \/ \E s \in Sessions, p \in CommitPaths :
          calls = <<>> /\ delete_file(s, p)

SpecCommit == CommitInit /\ [][CommitNext]_vars

\* The paths in which revision b differs from revision a.
ChangeSet(a, b) == {p \in DOMAIN a : a[p] # b[p]}

\* The commit thread of end_transaction call c returns with success.
CommitStep(c) ==
    /\ c \in 1..Len(calls)
    /\ calls[c].phase = "commit"
    /\ calls[c].th = "running"
    /\ CallThreadRun(c, TRUE)

C19_CleanAtAcquire ==
    [][Granted => tree = head]_vars

\* ---------------------------------------------------------- GitBackend.pull
\* `git rev-parse HEAD`: the revision is identified by its content (two
\* revisions of equal content have an empty diff, which is all pull asks).
rev_parse_HEAD == head

\* Rename detection of `git diff` (diff.renames is on by default): a path that
\* disappeared is paired with a path that appeared with the same content.
\* (One-to-one for the two paths of DiffPaths.)
RenamePairs(old, new) ==
    {pr \in (DOMAIN old) \X (DOMAIN old) :
        /\ old[pr[1]] # 0 /\ new[pr[1]] = 0
        /\ old[pr[2]] = 0 /\ new[pr[2]] # 0
        /\ old[pr[1]] = new[pr[2]]}

\* `git diff --name-status old new`: one line of tab-separated fields per
\* change: <<"A", path>>, <<"D", path>>, <<"M", path>>, and for a detected
\* rename the single line <<"R100", old path, new path>>.
git_diff_name_status(old, new) ==
    LET renamed == RenamePairs(old, new)
        from == {pr[1] : pr \in renamed}
        to == {pr[2] : pr \in renamed}
    IN {<<"A", p>> : p \in {q \in (DOMAIN old) \ to : old[q] = 0 /\ new[q] # 0}}
       \cup {<<"D", p>> : p \in {q \in (DOMAIN old) \ from : old[q] # 0 /\ new[q] = 0}}
       \cup {<<"M", p>> : p \in {q \in DOMAIN old : old[q] # 0 /\ new[q] # 0
                                                     /\ old[q] # new[q]}}
       \cup {<<"R100", pr[1], pr[2]>> : pr \in renamed}

\* str.startswith for the status field.
StatusLetter(status) ==
    CASE status = "R100" -> "R"
      [] status = "C100" -> "C"
      [] OTHER -> status

\* Lines 111-133: line.split("\t", 1) cuts a line into its status and the rest
\* of the line; the rest, whatever it holds, is appended as one entry to the
\* list picked by the first letter of the status.  An entry is the sequence of
\* the tab-separated fields it consists of: <<path>> for a plain path.
_parse_pull_file_statuses(git_diff_output) ==
    LET lines == {l \in git_diff_output : Len(l) >= 2}
    IN [added    |-> {Tail(l) : l \in {x \in lines : StatusLetter(x[1]) = "A"}},
        modified |-> {Tail(l) : l \in {x \in lines : StatusLetter(x[1]) \in {"M", "R", "C"}}},
        deleted  |-> {Tail(l) : l \in {x \in lines : StatusLetter(x[1]) = "D"}}]

\* Lines 540-547: the revision the diff starts from.
DiffBase(old_head) == old_head

\* Lines 502-507: the pull thread snapshots HEAD.
\* Fault model of main.py 178: the pull is started in its thread without being
\* awaited, and the loop goes on to its sleep while the thread runs.
PullRevParse_not_awaited ==
    /\ syncPc = "pull_running"
    /\ pullT.pc = "idle"
    /\ pullT' = [pc |-> "rev_parsed", old_head |-> rev_parse_HEAD]
    /\ syncPc' = "sleep"
    /\ UNCHANGED <<mgrVars, lockVars, cfgVars, deadline, calls, orphans,
                   gitVars, result, histVars, otherVars, remote, incoming,
                   pull_result>>

PullRevParse ==
    /\ syncPc = "pull_running"
    /\ pullT.pc = "idle"
    /\ pullT' = [pc |-> "rev_parsed", old_head |-> rev_parse_HEAD]
    /\ UNCHANGED <<mgrVars, lockVars, cfgVars, deadline, calls, orphans,
                   syncPc, gitVars, result, histVars, otherVars, remote, incoming,
                   pull_result>>

\* Lines 509-513: `git pull remote branch`.  With nothing new at the remote it
\* reports "Already up to date" and touches nothing; a new remote revision is
\* merged into a clean working tree; the command may fail in either case.
PullGit(ok) ==
    /\ pullT.pc = "rev_parsed"
    /\ pullT' = [pc |-> "pulled", old_head |-> pullT.old_head,
                 returncode |-> IF ok THEN 0 ELSE 1, merged |-> ok /\ incoming]
    /\ IF ok /\ incoming
       THEN /\ tree = head
            /\ head' = remote
            /\ tree' = remote
            /\ incoming' = FALSE
       ELSE UNCHANGED <<gitVars, incoming>>
    /\ UNCHANGED <<mgrVars, lockVars, cfgVars, deadline, calls, orphans,
                   syncPc, result, histVars, otherVars, remote, pull_result>>

\* Lines 514-564 and main.py 178-193: a failed pull returns success=False; a
\* successful one reads HEAD again and, if it moved, sorts the diff into the
\* three lists; the loop then goes to sleep.
PullReturn ==
    /\ pullT.pc = "pulled"
    /\ LET new_head == rev_parse_HEAD
           old_head == pullT.old_head
           lists == _parse_pull_file_statuses(
                        git_diff_name_status(DiffBase(old_head), new_head))
       IN pull_result' =
            IF pullT.returncode # 0 THEN PullResult(FALSE, {}, {}, {})
            ELSE IF old_head # new_head
            THEN PullResult(TRUE, lists.added, lists.modified, lists.deleted)
            ELSE PullResult(TRUE, {}, {}, {})
    /\ pullT' = NoPull
    /\ syncPc' = "sleep"
    /\ UNCHANGED <<mgrVars, lockVars, cfgVars, deadline, calls, orphans,
                   gitVars, result, histVars, otherVars, remote, incoming>>

\* Somebody else pushes a revision to the remote branch.
RemoteAdvance ==
    /\ remote' \in [DOMAIN remote -> Content \cup {0}]
    /\ remote' # remote
    /\ incoming' = TRUE
    /\ UNCHANGED <<mgrVars, lockVars, cfgVars, deadline, calls, orphans,
                   syncPc, gitVars, result, histVars, otherVars, pullT, pull_result>>

\* The sync loop with its pull thread, next to sessions that use the
\* transaction tools one call at a time.
PullNext ==
    \/ \E s \in Sessions : start_transaction(s)
    \/ StartWaiterGranted
    \/ \E i \in 1..MaxWaiters : StartWaiterTimeout(i)
    \/ \E s \in Sessions : calls = <<>> /\ commit_content_transaction(s)
    \/ \E s \in Sessions : calls = <<>> /\ abort_transaction(s)
    \/ \E c \in CallSlots, ok \in BOOLEAN : CallThreadRun(c, ok)
    \/ \E c \in CallSlots : EndPush(c)
    \/ \E c \in CallSlots : CallFinally(c)
    \/ \E s \in Sessions, p \in Paths, c \in Content :
          calls = <<>> /\ write_file(s, p, c)
    \/ \E s \in Sessions, p \in Paths : calls = <<>> /\ delete_file(s, p)
    \/ SyncTick
    \/ PullRevParse
    \/ \E ok \in BOOLEAN : PullGit(ok)
    \/ PullReturn
    \/ RemoteAdvance

SpecPull == Init /\ [][PullNext]_vars

\* C20: a pull whose `git pull` succeeded with no new remote revision returns
\* success=True with empty added, modified and deleted lists, and its
\* `git pull` leaves head and working tree as they were.
C20_PullIdempotent ==
    [][/\ (PullReturn /\ pullT.returncode = 0 /\ ~pullT.merged)
          => pull_result' = PullResult(TRUE, {}, {}, {})
       /\ (PullGit(TRUE) /\ ~incoming) => UNCHANGED gitVars]_vars

\* ------------------------------------------------------- pull of a rename
\* The sync loop alone on a repository of two paths; the remote gains one
\* revision at a time.
DiffPaths == {"a.md", "b.md"}

RenameInit ==
    /\ active_session = NoSession
    /\ active_id = NoTxn
    /\ timeout_task = NoTxn
    /\ locked = FALSE
    /\ waiters = <<>>
    /\ GIT_SYNC_ENABLED = TRUE
    /\ sync_event = TRUE
    /\ deadline = [t \in TxnIds |-> NoTask]
    /\ calls = <<>>
    /\ orphans = 0
    /\ syncPc = "sleep"
    /\ head \in [DiffPaths -> Content \cup {0}]
    /\ tree = head
    /\ result = NoResult
    /\ preTree = head
    /\ remote = head
    /\ incoming = FALSE
    /\ pullT = NoPull
    /\ pull_result = NoPullResult
    /\ blame = NoBlame
    /\ doc = NoDoc
    /\ repo_config = NoRepoConfig
    /\ startup = Serving

RenameNext ==
    \/ SyncTick
    \/ PullRevParse
    \/ \E ok \in BOOLEAN : PullGit(ok)
    \/ PullReturn
    \/ ~incoming /\ RemoteAdvance

SpecRename == RenameInit /\ [][RenameNext]_vars

\* Revision new is revision old with path from renamed to path to.
IsRename(old, new, from, to) ==
    /\ from # to
    /\ old[from] # 0 /\ new[from] = 0
    /\ old[to] = 0 /\ new[to] = old[from]

\* C21: a pull that moved the head by a revision which renamed one path to
\* another returns the old path in deleted_files and the new path in
\* added_files, and nothing in modified_files.
C21_RenameAsDeleteAndAdd ==
    [][\A from, to \in DiffPaths :
          (/\ PullReturn
           /\ pullT.returncode = 0
           /\ pullT.merged
           /\ IsRename(pullT.old_head, head, from, to))
          => /\ <<from>> \in pull_result'.deleted_files
             /\ <<to>> \in pull_result'.added_files
             /\ pull_result'.modified_files = {}]_vars

\* -------------------------------------------------- failures in the sync loop
\* Fault model: an exception of the tick that is not caught ends the loop.
PullRaise_uncaught ==
    /\ syncPc = "pull_running"
    /\ pullT' = NoPull
    /\ syncPc' = "stopped"
    /\ UNCHANGED <<mgrVars, lockVars, cfgVars, deadline, calls, orphans,
                   gitVars, result, histVars, otherVars, remote, incoming, pull_result>>

\* main.py 191-193: an exception raised inside the tick (subprocess.run cannot
\* start git, an OSError of the worker thread) reaches the loop through
\* to_thread, is caught by `except Exception` and logged; the loop goes to
\* its sleep.
PullRaise ==
    /\ syncPc = "pull_running"
    /\ pullT' = NoPull
    /\ syncPc' = "sleep"
    /\ UNCHANGED <<mgrVars, lockVars, cfgVars, deadline, calls, orphans,
                   gitVars, result, histVars, otherVars, remote, incoming, pull_result>>

SyncLoopNext ==
    \/ SyncTick
    \/ PullRevParse
    \/ \E ok \in BOOLEAN : PullGit(ok)
    \/ PullReturn
    \/ PullRaise
    \/ ~incoming /\ RemoteAdvance

\* The loop is an asyncio task and the pull runs in a worker thread: the sleep
\* ends after the interval, the thread's commands terminate and the event loop
\* resumes the task; hence the weak fairness of these steps.
SpecSyncLoop ==
    /\ RenameInit
    /\ [][SyncLoopNext]_vars
    /\ WF_vars(SyncTick)
    /\ WF_vars(PullRevParse)
    /\ WF_vars(\E ok \in BOOLEAN : PullGit(ok))
    /\ WF_vars(PullReturn)

AtRest ==
    /\ active_session = NoSession
    /\ active_id = NoTxn
    /\ timeout_task = NoTxn
    /\ locked = FALSE
    /\ waiters = <<>>
    /\ GIT_SYNC_ENABLED = FALSE
    /\ sync_event = TRUE
    /\ deadline = [t \in TxnIds |-> NoTask]
    /\ calls = <<>>
    /\ orphans = 0
    /\ syncPc = "sleep"
    /\ head = [p \in Paths |-> 0]
    /\ tree = head
    /\ result = NoResult
    /\ preTree = head
    /\ remote = head
    /\ incoming = FALSE
    /\ pullT = NoPull
    /\ pull_result = NoPullResult

MaxEntries == 3      \* lines of the blamed file
MaxHashes == 2       \* revisions the lines come from

Hashes == 1..MaxHashes

\* What `git blame --porcelain` knows of revision h: author, author-time and
\* summary, different for different revisions.
MetaOf(h) == [author |-> h, time |-> MaxHashes + h, summary |-> 2 * MaxHashes + h]

\* One line of the porcelain text.  k is what the line starts with, h the hash
\* of a header, v the header's final line number or the text after the key or
\* the tab.
Line(k, h, v) == [k |-> k, h |-> h, v |-> v]

\* The porcelain text for line i of the file: the header; the metadata lines
\* when the revision occurs for the first time (all of them, or none of
\* author, author-time and summary for a revision outside `complete`); an
\* optional filename line; the tab-prefixed content.
RECURSIVE git_blame_porcelain(_, _, _)
git_blame_porcelain(entries, complete, i) ==
    IF i > Len(entries) THEN <<>>
    ELSE LET e == entries[i]
             first == \A j \in 1..(i - 1) : entries[j].hash # e.hash
             meta == IF first /\ e.hash \in complete
                     THEN <<Line("author", 0, MetaOf(e.hash).author),
                            Line("author-mail", 0, 0),
                            Line("author-time", 0, MetaOf(e.hash).time),
                            Line("summary", 0, MetaOf(e.hash).summary)>>
                     ELSE <<>>
             filename == IF first \/ e.filename
                         THEN <<Line("filename", 0, 0)>> ELSE <<>>
         IN <<Line("header", e.hash, i)>> \o meta \o filename
            \o <<Line("content", 0, e.content)>>
            \o git_blame_porcelain(entries, complete, i + 1)

\* current_meta / a value of the commits dict: 0 stands for a key not set.
EmptyMeta == [author |-> 0, timestamp |-> 0, summary |-> 0]

\* Fault model: a header always starts from empty metadata.
MetaAtHeader_no_cache(commits, hash) == EmptyMeta

\* Lines 86-90: reuse the cached metadata of a commit seen before.
MetaAtHeader(commits, hash) ==
    IF commits[hash].seen THEN commits[hash].meta ELSE EmptyMeta

\* Lines 63-72: the BlameLine of a content line.  A missing author or summary
\* becomes "" (0 here); a missing timestamp becomes datetime.now(UTC), a
\* different instant at every call (the position in the text stands for it).
BlameLine(line_number, current_hash, current_meta, content, pos) ==
    [line_number |-> line_number,
     commit_hash |-> current_hash,
     author |-> current_meta.author,
     timestamp |-> IF current_meta.timestamp = 0
                   THEN <<"now", pos>> ELSE <<"epoch", current_meta.timestamp>>,
     summary |-> current_meta.summary,
     content |-> content]

BlameInit ==
    /\ AtRest
    /\ doc = NoDoc
    /\ repo_config = NoRepoConfig
    /\ startup = Serving
    /\ \E n \in 1..MaxEntries :
         \E entries \in [1..n -> [hash : Hashes, filename : BOOLEAN, content : Content]],
            complete \in SUBSET Hashes :
            blame = [pc |-> "parsing",
                     entries |-> entries,
                     complete |-> complete,
                     output |-> git_blame_porcelain(entries, complete, 1),
                     pos |-> 0,
                     lines |-> <<>>,
                     commits |-> [h \in Hashes |-> [seen |-> FALSE, meta |-> EmptyMeta]],
                     current_hash |-> 0,
                     current_meta |-> EmptyMeta,
                     line_number |-> 0]

\* Lines 57-106: the loop body for the next raw_line of the output.
ParseBlameLine ==
    /\ blame.pc = "parsing"
    /\ blame.pos < Len(blame.output)
    /\ LET raw_line == blame.output[blame.pos + 1]
           b == [blame EXCEPT !.pos = blame.pos + 1]
       IN blame' =
            IF raw_line.k = "content"
            THEN IF blame.current_hash # 0
                 THEN [b EXCEPT
                         !.commits[blame.current_hash] =
                             [seen |-> TRUE, meta |-> blame.current_meta],
                         !.lines = Append(blame.lines,
                             BlameLine(blame.line_number, blame.current_hash,
                                       blame.current_meta, raw_line.v, blame.pos))]
                 ELSE b
            ELSE IF raw_line.k = "header"
            THEN [b EXCEPT !.current_hash = raw_line.h,
                           !.line_number = raw_line.v,
                           !.current_meta = MetaAtHeader(blame.commits, raw_line.h)]
            ELSE IF blame.current_hash = 0 THEN b
            ELSE IF raw_line.k = "author"
            THEN [b EXCEPT !.current_meta.author = raw_line.v]
            ELSE IF raw_line.k = "author-time"
            THEN [b EXCEPT !.current_meta.timestamp = raw_line.v]
            ELSE IF raw_line.k = "summary"
            THEN [b EXCEPT !.current_meta.summary = raw_line.v]
            ELSE b
    /\ UNCHANGED <<mgrVars, lockVars, cfgVars, deadline, calls, orphans,
                   syncPc, gitVars, result, histVars, pullVars, doc,
                   repo_config, startup>>

\* Line 108: return lines.
ParseBlameReturn ==
    /\ blame.pc = "parsing"
    /\ blame.pos = Len(blame.output)
    /\ blame' = [blame EXCEPT !.pc = "returned"]
    /\ UNCHANGED <<mgrVars, lockVars, cfgVars, deadline, calls, orphans,
                   syncPc, gitVars, result, histVars, pullVars, doc,
                   repo_config, startup>>

BlameNext == ParseBlameLine \/ ParseBlameReturn

SpecBlame == BlameInit /\ [][BlameNext]_vars

MaxText == 3
Chars == {"x", "CR", "LF"}
Texts == UNION {[1..n -> Chars] : n \in 0..MaxText}

\* os.linesep of the platform the server runs on (POSIX).
os_linesep == <<"LF">>

\* Path.write_text(content, encoding="utf-8"): text mode with newline=None
\* writes os.linesep for every "\n" and every other character as it is.
RECURSIVE write_text(_)
write_text(content) ==
    IF content = <<>> THEN <<>>
    ELSE (IF Head(content) = "LF" THEN os_linesep ELSE <<Head(content)>>)
         \o write_text(Tail(content))

\* Path.read_text(encoding="utf-8"): text mode with universal newlines turns
\* "\r\n" and a lone "\r" into "\n".
RECURSIVE read_text(_)
read_text(data) ==
    IF data = <<>> THEN <<>>
    ELSE IF Head(data) = "CR"
    THEN IF Len(data) >= 2 /\ data[2] = "LF"
         THEN <<"LF">> \o read_text(Tail(Tail(data)))
         ELSE <<"LF">> \o read_text(Tail(data))
    ELSE <<Head(data)>> \o read_text(Tail(data))

\* hashlib.sha256(text.encode("utf-8")).hexdigest(); different texts are taken
\* to have different digests.
sha256(text) == [alg |-> "sha256", of |-> text]
Digests == {sha256(t) : t \in Texts}

ShaInit ==
    /\ AtRest
    /\ blame = NoBlame
    /\ repo_config = NoRepoConfig
    /\ startup = Serving
    /\ doc = [pc |-> "file", exists |-> FALSE, data |-> <<>>,
              written |-> <<>>, res |-> "none"]

DocFrame ==
    UNCHANGED <<mgrVars, lockVars, cfgVars, deadline, calls, orphans,
                syncPc, gitVars, result, histVars, pullVars, blame,
                repo_config, startup>>

\* The tool wrote content: the file holds what write_text made of it.
DocWritten(content) ==
    [doc EXCEPT !.exists = TRUE, !.data = write_text(content),
                !.written = content, !.res = "ok"]

DocRaised(exc) == [doc EXCEPT !.res = exc]

\* mcp_server.py 322-342.
create_content(content) ==
    /\ doc.pc = "file"
    /\ doc' = IF doc.exists THEN DocRaised("ValueError: exists")
              ELSE DocWritten(content)
    /\ DocFrame

\* mcp_server.py 356-388.
overwrite_content(content, sha) ==
    /\ doc.pc = "file"
    /\ doc' = IF ~doc.exists THEN DocRaised("FileNotFoundError")
              ELSE IF sha # sha256(read_text(doc.data))
              THEN DocRaised("ValueError: SHA mismatch")
              ELSE DocWritten(content)
    /\ DocFrame

\* mcp_server.py 399-433 with one edit that replaces the whole text
\* (old_string is the current content, which must not be empty).
edit_content(sha, new_string) ==
    /\ doc.pc = "file"
    /\ doc' = IF ~doc.exists THEN DocRaised("FileNotFoundError")
              ELSE IF sha # sha256(read_text(doc.data))
              THEN DocRaised("ValueError: SHA mismatch")
              ELSE IF read_text(doc.data) = <<>>
              THEN DocRaised("ValueError: old_string")
              ELSE DocWritten(new_string)
    /\ DocFrame

\* mcp_server.py 503-529 (the MCP tool delete_content).
delete_content_tool(sha) ==
    /\ doc.pc = "file"
    /\ doc' = IF ~doc.exists THEN DocRaised("FileNotFoundError")
              ELSE IF sha # sha256(read_text(doc.data))
              THEN DocRaised("ValueError: SHA mismatch")
              ELSE [doc EXCEPT !.exists = FALSE, !.data = <<>>,
                               !.written = <<>>, !.res = "ok"]
    /\ DocFrame

ShaNext ==
    \/ \E c \in Texts : create_content(c)
    \/ \E c \in Texts, sha \in Digests : overwrite_content(c, sha)
    \/ \E sha \in Digests, c \in Texts : edit_content(sha, c)
    \/ \E sha \in Digests : delete_content_tool(sha)

SpecSha == ShaInit /\ [][ShaNext]_vars

\* C24: with the file last written with content c, an overwrite, edit (of a
\* non-empty text) or delete is accepted when it presents the SHA-256 of c,
\* and is refused with a SHA mismatch, leaving the file as it is, when it
\* presents the SHA-256 of any other content.
C24_ShaRoundTrip ==
    [][doc.pc = "file" /\ doc.exists
       => \A sha \in Digests :
            LET fresh == sha = sha256(doc.written)
                Settled(d) ==
                    IF fresh THEN d.res = "ok"
                    ELSE /\ d.res = "ValueError: SHA mismatch"
                         /\ d.data = doc.data /\ d.exists
            IN /\ \A c \in Texts : overwrite_content(c, sha) => Settled(doc')
               /\ \A c \in Texts :
                     (edit_content(sha, c) /\ doc.written # <<>>) => Settled(doc')
               /\ delete_content_tool(sha) => Settled(doc')]_vars

\* ------------------------------------------------------ GitBackend.validate
\* Lines 136-145: "Name <email>" gives (name, email); any other text is the
\* name, with an empty email.
_parse_author_string(author) ==
    IF author = "Bot <bot@example.com>"
    THEN [name |-> "Bot", email |-> "bot@example.com"]
    ELSE [name |-> author, email |-> ""]

\* A directory that may be a repository, with or without a local user.name
\* ("" = not set) and user.email, and a GitBackend with one of two author
\* defaults.
ValidateInit ==
    /\ AtRest
    /\ blame = NoBlame
    /\ doc = NoDoc
    /\ startup = Serving
    /\ \E is_repo \in BOOLEAN, name \in {"", "Dev", "Ops"},
          email \in {"", "dev@example.com", "ops@example.com"},
          author \in {"Bot <bot@example.com>", "Bot"} :
          repo_config = [pc |-> "validate", is_repo |-> is_repo,
                         author_default |-> author,
                         user_name |-> name, user_email |-> email,
                         res |-> "none"]

RepoFrame ==
    UNCHANGED <<mgrVars, lockVars, cfgVars, deadline, calls, orphans,
                syncPc, gitVars, result, histVars, pullVars, blame, doc,
                startup>>

\* Lines 233-238: `git rev-parse --git-dir`.
ValidateRevParse ==
    /\ repo_config.pc = "validate"
    /\ repo_config' = IF repo_config.is_repo
                      THEN [repo_config EXCEPT !.pc = "read_name"]
                      ELSE [repo_config EXCEPT !.pc = "returned",
                                               !.res = "RuntimeError"]
    /\ RepoFrame

\* Lines 242-243: `git config --local user.name`, and the test of its output,
\* which is empty when no local user.name is set.
ValidateReadName ==
    /\ repo_config.pc = "read_name"
    /\ repo_config' = IF repo_config.user_name = ""
                      THEN [repo_config EXCEPT !.pc = "set_name"]
                      ELSE [repo_config EXCEPT !.pc = "returned", !.res = "ok"]
    /\ RepoFrame

\* Lines 244-245: `git config user.name name`; its exit status is not looked at.
ValidateSetName(ok) ==
    /\ repo_config.pc = "set_name"
    /\ repo_config' =
         [repo_config EXCEPT
            !.pc = "set_email",
            !.user_name = IF ok
                          THEN _parse_author_string(repo_config.author_default).name
                          ELSE @]
    /\ RepoFrame

\* Lines 246-251: `git config user.email email`, then the log line.
ValidateSetEmail(ok) ==
    /\ repo_config.pc = "set_email"
    /\ repo_config' =
         [repo_config EXCEPT
            !.pc = "returned",
            !.res = "ok",
            !.user_email = IF ok
                           THEN _parse_author_string(repo_config.author_default).email
                           ELSE @]
    /\ RepoFrame

ValidateNext ==
    \/ ValidateRevParse
    \/ ValidateReadName
    \/ \E ok \in BOOLEAN : ValidateSetName(ok)
    \/ \E ok \in BOOLEAN : ValidateSetEmail(ok)

SpecValidate == ValidateInit /\ [][ValidateNext]_vars

\* C25: validate leaves a local user.name that is set, and a local user.email
\* that is set, as they are.
C25_IdentityKept ==
    [][repo_config.pc # "none"
       => /\ repo_config.user_name # "" => repo_config'.user_name = repo_config.user_name
          /\ repo_config.user_email # "" => repo_config'.user_email = repo_config.user_email]_vars

\* --------------------------------------------------------- GitBackend.clone
Tokens == {"", "tokA", "tokB"}          \* "" = no token given
Urls == {[scheme |-> "https", userinfo |-> <<>>, rest |-> "host/repo.git"],
         [scheme |-> "http",  userinfo |-> <<>>, rest |-> "host/repo.git"],
         [scheme |-> "ssh",   userinfo |-> <<>>, rest |-> "host/repo.git"]}

\* Lines 434-441: the token goes into an https URL as its user-info part.
clone_url(url, token) ==
    IF token # "" /\ url.scheme = "https"
    THEN [url EXCEPT !.userinfo = <<"x-access-token", token>>]
    ELSE url

\* The target directory does not hold a repository yet.
CloneInit ==
    /\ AtRest
    /\ blame = NoBlame
    /\ doc = NoDoc
    /\ startup = Serving
    /\ \E url \in Urls, token \in Tokens, recursive \in BOOLEAN :
          repo_config = [pc |-> "clone", url |-> url, token |-> token,
                         recursive |-> recursive, is_repo |-> FALSE,
                         origin_url |-> [scheme |-> "none"], helper_script |-> "none",
                         credential_helper |-> "none", res |-> "none"]

\* Lines 445-471: `git clone --branch b clone_url target`.  git either
\* fails and leaves no repository ("failed"), or writes the repository with
\* remote.origin.url = clone_url and then succeeds ("ok"), or writes the
\* repository and exits non-zero because the checkout, or with
\* --recurse-submodules a submodule, failed ("kept").  Any non-zero exit makes
\* clone raise RuntimeError; on success GitBackend(target_dir) is built.
CloneGit(outcome) ==
    /\ repo_config.pc = "clone"
    /\ outcome \in {"ok", "failed", "kept"}
    /\ repo_config' =
         IF outcome = "failed"
         THEN [repo_config EXCEPT !.pc = "returned", !.res = "RuntimeError"]
         ELSE [repo_config EXCEPT
                 !.is_repo = TRUE,
                 !.origin_url = clone_url(repo_config.url, repo_config.token),
                 !.pc = IF outcome = "kept" THEN "returned"
                        ELSE IF repo_config.token # "" THEN "set_url"
                        ELSE "returned",
                 !.res = IF outcome = "kept" THEN "RuntimeError"
                         ELSE IF repo_config.token # "" THEN "none"
                         ELSE "instance"]
    /\ RepoFrame

\* Lines 473-480: `git remote set-url origin url`, check=True.
CloneSetUrl(ok) ==
    /\ repo_config.pc = "set_url"
    /\ repo_config' =
         IF ok
         THEN [repo_config EXCEPT !.origin_url = repo_config.url,
                                  !.pc = "credentials"]
         ELSE [repo_config EXCEPT !.pc = "returned",
                                  !.res = "CalledProcessError"]
    /\ RepoFrame

\* Lines 189-207 of _configure_credentials, called at line 482: locate the
\* .git directory; if that fails, warn and return; else write the helper
\* script holding the token.
ConfigureCredentialsScript(ok) ==
    /\ repo_config.pc = "credentials"
    /\ repo_config' =
         IF ok
         THEN [repo_config EXCEPT !.helper_script = repo_config.token,
                                  !.pc = "helper_config"]
         ELSE [repo_config EXCEPT !.pc = "returned", !.res = "instance"]
    /\ RepoFrame

\* Lines 209-214: `git config credential.helper path`, check=True; then
\* clone returns the instance (lines 484-485).
ConfigureCredentialsConfig(ok) ==
    /\ repo_config.pc = "helper_config"
    /\ repo_config' =
         IF ok
         THEN [repo_config EXCEPT !.credential_helper = "stash-credential-helper.sh",
                                  !.pc = "returned", !.res = "instance"]
         ELSE [repo_config EXCEPT !.pc = "returned",
                                  !.res = "CalledProcessError"]
    /\ RepoFrame

CloneNext ==
    \/ \E outcome \in {"ok", "failed", "kept"} : CloneGit(outcome)
    \/ \E ok \in BOOLEAN : CloneSetUrl(ok)
    \/ \E ok \in BOOLEAN : ConfigureCredentialsScript(ok)
    \/ \E ok \in BOOLEAN : ConfigureCredentialsConfig(ok)

SpecClone == CloneInit /\ [][CloneNext]_vars

\* C26: once a clone with a token has returned, with an instance or with an
\* error, a repository that exists has the token-free URL as its origin and
\* nothing in its configuration holds the token.
C26_TokenNotInConfig ==
    (repo_config.pc = "returned" /\ repo_config.token # "" /\ repo_config.is_repo)
        => /\ repo_config.origin_url = repo_config.url
           /\ repo_config.credential_helper # repo_config.token

\* ----------------------------------------------------------------- startup
\* The entry points: main.py's main ("http"), server.py's run ("stdio"),
\* python -m stash_mcp ("module", which runs server.py's main) and
\* web_server.py's run_web_server ("web").
EntryPoints == {"http", "stdio", "module", "web"}

\* The environment a process starts in: the configuration switches and the
\* content directory (absent or empty, a git repository, or other files).
StartupInit ==
    /\ AtRest
    /\ blame = NoBlame
    /\ doc = NoDoc
    /\ repo_config = NoRepoConfig
    /\ \E entry \in EntryPoints, tracking \in BOOLEAN, sync \in BOOLEAN,
          has_clone_url \in BOOLEAN, read_only \in BOOLEAN,
          dir \in {"empty", "repo", "files"} :
          startup = [pc |-> "entry", entry |-> entry,
                     env_tracking |-> tracking,
                     GIT_TRACKING |-> tracking, GIT_SYNC_ENABLED |-> sync,
                     GIT_CLONE_URL |-> has_clone_url, READ_ONLY |-> read_only,
                     content_dir |-> dir,
                     git_backend |-> FALSE,          \* a GitBackend was built
                     backend |-> FALSE,              \* the one the server uses
                     transaction_manager |-> FALSE, sync_loop |-> FALSE]

StartupFrame ==
    UNCHANGED <<mgrVars, lockVars, cfgVars, deadline, calls, orphans,
                syncPc, gitVars, result, histVars, pullVars, blame, doc,
                repo_config>>

Exit(s) == [s EXCEPT !.pc = "exited"]

\* web_server.py 15-42: a FileSystem, the REST API and the UI; nothing of git.
run_web_server ==
    /\ startup.pc = "entry"
    /\ startup.entry = "web"
    /\ startup' = [startup EXCEPT !.pc = "serving"]
    /\ StartupFrame

\* main.py 37-77 and server.py 20-60.  GitBackend.clone builds a GitBackend
\* of the cloned directory when git succeeds.
_maybe_clone_repo(cloned) ==
    /\ startup.pc = "entry"
    /\ startup.entry # "web"
    /\ startup' =
         IF ~startup.GIT_CLONE_URL
         THEN [startup EXCEPT !.pc = "create_git_backend"]
         ELSE IF startup.content_dir = "repo"
         THEN [startup EXCEPT !.pc = "create_git_backend"]
         ELSE IF startup.content_dir = "files"
         THEN Exit(startup)
         ELSE IF cloned
         THEN [startup EXCEPT !.pc = "create_git_backend",
                              !.content_dir = "repo",
                              !.git_backend = TRUE,
                              !.GIT_TRACKING = TRUE]
         ELSE Exit(startup)
    /\ StartupFrame

\* GitBackend(...), validate() and, under sync, validate_remote(): main.py
\* 123-153, server.py 94-109.
BuildBackend(s, has_remote, check_remote) ==
    IF s.content_dir # "repo"
    THEN Exit([s EXCEPT !.git_backend = TRUE])
    ELSE IF check_remote /\ s.GIT_SYNC_ENABLED /\ ~has_remote
    THEN Exit([s EXCEPT !.git_backend = TRUE])
    ELSE [s EXCEPT !.git_backend = TRUE, !.backend = TRUE, !.pc = "wire"]

\* main.py 108-153.
_create_git_backend(has_remote) ==
    /\ startup.pc = "create_git_backend"
    /\ startup.entry = "http"
    /\ startup' =
         IF startup.GIT_SYNC_ENABLED /\ ~startup.GIT_TRACKING
         THEN Exit(startup)
         ELSE IF ~startup.GIT_TRACKING
         THEN [startup EXCEPT !.pc = "wire"]
         ELSE BuildBackend(startup, has_remote, TRUE)
    /\ StartupFrame

\* server.py 89-109.
_create_git_backend_stdio ==
    /\ startup.pc = "create_git_backend"
    /\ startup.entry \in {"stdio", "module"}
    /\ startup' =
         IF ~startup.GIT_TRACKING
         THEN [startup EXCEPT !.pc = "wire"]
         ELSE BuildBackend(startup, FALSE, FALSE)
    /\ StartupFrame

\* main.py 222-231: the TransactionManager; 266-269 in the lifespan: the sync
\* loop task; then uvicorn serves.
create_app ==
    /\ startup.pc = "wire"
    /\ startup.entry = "http"
    /\ startup' = [startup EXCEPT
                     !.transaction_manager = ~startup.READ_ONLY /\ startup.backend,
                     !.sync_loop = startup.backend /\ startup.GIT_SYNC_ENABLED,
                     !.pc = "serving"]
    /\ StartupFrame

\* server.py 131-140: the MCP server over the plain filesystem, on stdio.
run_stdio ==
    /\ startup.pc = "wire"
    /\ startup.entry \in {"stdio", "module"}
    /\ startup' = [startup EXCEPT !.pc = "serving"]
    /\ StartupFrame

StartupNext ==
    \/ run_web_server
    \/ \E cloned \in BOOLEAN : _maybe_clone_repo(cloned)
    \/ \E has_remote \in BOOLEAN : _create_git_backend(has_remote)
    \/ _create_git_backend_stdio
    \/ create_app
    \/ run_stdio

SpecStartup == StartupInit /\ [][StartupNext]_vars

\* C27: a process started with periodic sync enabled and tracking disabled
\* never comes to serve, and never builds a git backend, a transaction
\* manager or a sync loop.
C27_SyncWithoutTrackingFatal ==
    (startup.GIT_SYNC_ENABLED /\ ~startup.env_tracking)
        => /\ startup.pc # "serving"
           /\ ~startup.git_backend
           /\ ~startup.transaction_manager
           /\ ~startup.sync_loop

\* C28: a call of end_transaction starts its push only when its commit has
\* returned with success and a push target was supplied: a call whose commit
\* raised, and a call without a target, never come to the push.
C28_PushOnlyAfterCommit ==
    /\ [][\A c \in CallSlots :
            (/\ Len(calls') = Len(calls)
             /\ c <= Len(calls)
             /\ calls'[c].phase = "push"
             /\ calls[c].phase # "push")
            => (/\ calls[c].kind = "end"
                /\ calls[c].phase = "commit"
                /\ calls[c].th = "ok"
                /\ calls[c].push)]_vars
    /\ [](\A c \in 1..Len(calls) :
            calls[c].phase = "push" => calls[c].kind = "end" /\ calls[c].push)
    /\ [][\A c \in CallSlots :
            (/\ c <= Len(calls)
             /\ calls[c].phase = "commit"
             /\ calls[c].th \in {"ok", "fail"}
             /\ (calls[c].th = "fail" \/ ~calls[c].push)
             /\ Len(calls') = Len(calls))
            => calls'[c] = calls[c]]_vars

\* The commit of a call with a push target has succeeded and its push runs.
C28_Witness ==
    \E c \in 1..Len(calls) :
        calls[c].phase = "push" /\ calls[c].th = "running"

\* C29: at most one pull is in flight: a pull thread runs only while the
\* loop is waiting for it, and a tick starts a pull only when no pull thread
\* is running.
C29_OnePullInFlight ==
    /\ [](pullT.pc # "idle" => syncPc = "pull_running")
    /\ [][(syncPc = "sleep" /\ syncPc' = "pull_running")
          => (pullT.pc = "idle" /\ pullT'.pc = "idle")]_vars

\* The pull of a later tick is in its thread after an earlier pull returned.
C29_Witness ==
    /\ pull_result # NoPullResult
    /\ syncPc = "pull_running"
    /\ pullT.pc = "pulled"

\* C30: an end or abort of the owner that has passed the ownership check
\* leaves the deadline task of the recorded transaction cancelled, whatever
\* that task was doing; and a cancelled deadline task takes no further step:
\* it starts no reset and runs no cleanup, and its id gets a deadline task
\* again only as the id of a new transaction.
C30_DeadlineCancelledAtEnd ==
    /\ [][\A s \in Sessions :
            (/\ _validate_session(s)
             /\ commit_content_transaction(s) \/ abort_transaction(s))
            => /\ deadline'[active_id] = NoTask
               /\ \A t \in TxnIds : deadline'[t] \in {deadline[t], NoTask}]_vars
    /\ [][\A t \in TxnIds :
            (deadline[t] = NoTask /\ deadline'[t] # NoTask)
            => /\ ~Referenced(t)
               /\ active_id' = t
               /\ deadline'[t].pc = "sleeping"]_vars
    /\ [][\A t \in TxnIds :
            (\E c \in 1..Len(calls) : calls[c].txn = t)
            => deadline'[t] = NoTask]_vars

\* The owner's end or abort is in flight and has cancelled the deadline task
\* while that task was waiting for its reset_hard thread.
C30_Witness ==
    /\ active_id # NoTxn
    /\ \E c \in 1..Len(calls) : calls[c].txn = active_id
    /\ deadline[active_id] = NoTask
    /\ orphans > 0

\* C31: the cleanup that terminates a transaction (of an end, an abort or the
\* deadline task) leaves no session recorded as owner; a session becomes the
\* owner only by a start that is granted a new transaction; and as long as a
\* session is not the owner, whoever else is, its end and abort are rejected
\* with TransactionError and start no git command, and its gated writes and
\* deletes are rejected with TransactionError and leave the tree alone.
C31_NoTransactionAfterDestroy ==
    /\ [][Cleanup => (active_session' = NoSession /\ active_id' = NoTxn)]_vars
    /\ [][\A s \in Sessions :
            (active_session # s /\ active_session' = s)
            => (Granted /\ result' = Outcome("start", "ok"))]_vars
    /\ [][\A s \in Sessions :
            active_session # s
            => /\ (commit_content_transaction(s) \/ abort_transaction(s))
                  => /\ result'.res = "TransactionError"
                     /\ calls' = calls
                     /\ UNCHANGED <<mgrVars, gitVars>>
               /\ \A p \in Paths :
                     ((\E c \in Content : write_file(s, p, c)) \/ delete_file(s, p))
                     => /\ result'.res = "TransactionError"
                        /\ UNCHANGED <<mgrVars, gitVars>>]_vars

\* A gated write was rejected while a session owns a transaction started
\* after an earlier one was committed: with two sessions the rejected writer
\* is the other one.
C31_Witness ==
    /\ result = Outcome("write", "TransactionError")
    /\ active_session # NoSession
    /\ head # [p \in Paths |-> 0]
    /\ calls = <<>>

\* C32: in every state between two steps of the event loop the manager's
\* fields agree: an owner is recorded exactly when a transaction id is
\* recorded, and the lock is held exactly when they are.
C32_StateConsistent ==
    /\ (active_session = NoSession) <=> (active_id = NoTxn)
    /\ locked <=> (active_id # NoTxn)
    /\ locked <=> (active_session \in Sessions)

\* A transaction is recorded with the lock held while its owner's end is in
\* flight and another session waits for the lock.
C32_Witness ==
    /\ active_id # NoTxn
    /\ locked
    /\ waiters # <<>>
    /\ \E c \in 1..Len(calls) : calls[c].txn = active_id

\* C33: the deadline task of transaction t starts its reset, has its reset
\* run and runs its cleanup only while t is the recorded transaction (or none
\* is recorded, when the steps find nothing to terminate).
C33_DeadlineOwnTransactionOnly ==
    [][\A t \in TxnIds :
          (\/ DeadlineFire(t) /\ deadline'[t].pc = "reset_running"
           \/ \E ok \in BOOLEAN : DeadlineThreadRun(t, ok)
           \/ DeadlineCleanup(t))
          => active_id \in {t, NoTxn}]_vars

\* C34: the cleanup of an end or abort call clears the owner, resumes sync and
\* releases the lock only of the transaction the call validated: when it runs,
\* the recorded transaction is that one, or none is recorded any more.
C34_CleanupOfValidatedOnly ==
    [][\A c \in CallSlots :
          CallFinally(c)
          => \/ active_id = NoTxn
             \/ /\ active_id = calls[c].txn
                /\ active_session # NoSession]_vars

\* The recorded transaction is being terminated: an end or abort that
\* validated it is in flight, or its deadline task has begun the reset.
Terminating ==
    /\ active_id # NoTxn
    /\ \/ \E c \in 1..Len(calls) : calls[c].txn = active_id
       \/ deadline[active_id].pc \in {"reset_running", "reset_done"}

\* C35: while the recorded transaction is being terminated, a gated write or
\* delete by any session, its owner included, is rejected with
\* TransactionError and leaves the working tree as it is.
C35_NoWriteWhileTerminating ==
    [][\A s \in Sessions, p \in Paths :
          (Terminating
             /\ ((\E c \in Content : write_file(s, p, c)) \/ delete_file(s, p)))
          => (result'.res = "TransactionError" /\ tree' = tree)]_vars

\* The git commands on the working tree that are in flight: the commit, push
\* or reset of an end/abort call, the reset of a deadline task, and the reset
\* threads left behind by cancelled deadline tasks.
GitInFlight ==
    Cardinality({c \in 1..Len(calls) : calls[c].th = "running"})
    + Cardinality({t \in TxnIds : deadline[t].pc = "reset_running"})
    + orphans

\* C36: at most one git command on the working tree is in flight.
C36_OneGitOperation == GitInFlight <= 1

\* ------------------------------------------- cancellation of an end or abort
\* The task that awaits end_transaction or abort_transaction is cancelled (the
\* MCP client cancels the request or goes away) while its git command runs in
\* the worker thread.  asyncio.to_thread cannot stop the thread: the await at
\* line 151, 153 or 169 raises CancelledError, the finally block runs the
\* cleanup, and the thread runs on without anyone waiting for it.
CallCancel(c) ==
    /\ c \in 1..Len(calls)
    /\ calls[c].kind \in {"end", "abort"}
    /\ calls[c].th = "running"
    /\ _clear_and_release
    /\ calls' = [calls EXCEPT ![c].kind = "detached"]
    /\ result' = Outcome(calls[c].kind, "CancelledError")
    /\ UNCHANGED <<timeout_task, deadline, orphans, syncPc, gitVars,
                   preTree, pullVars, otherVars>>

\* The thread of a cancelled call has finished its command; its result is
\* dropped.
DetachedThreadDone(c) ==
    /\ c \in 1..Len(calls)
    /\ calls[c].kind = "detached"
    /\ calls[c].th \in {"ok", "fail"}
    /\ calls' = RemoveAt(calls, c)
    /\ UNCHANGED <<mgrVars, lockVars, cfgVars, deadline, orphans, syncPc,
                   gitVars, result, histVars, pullVars, otherVars>>

\* Sessions that use the transaction tools one call at a time, with deadlines
\* long enough never to elapse, and whose end and abort requests may be
\* cancelled.
Attended(c) == c \in 1..Len(calls) /\ calls[c].kind # "detached"
NoCallAwaited == \A c \in 1..Len(calls) : calls[c].kind = "detached"

CancelNext ==
    \/ \E s \in Sessions : start_transaction(s)
    \/ StartWaiterGranted
    \/ \E i \in 1..MaxWaiters : StartWaiterTimeout(i)
    \/ \E s \in Sessions : NoCallAwaited /\ commit_content_transaction(s)
    \/ \E s \in Sessions : NoCallAwaited /\ abort_transaction(s)
    \/ \E c \in CallSlots, ok \in BOOLEAN : CallThreadRun(c, ok)
    \/ \E c \in CallSlots : Attended(c) /\ EndPush(c)
    \/ \E c \in CallSlots : Attended(c) /\ CallFinally(c)
    \/ \E c \in CallSlots : CallCancel(c)
    \/ \E c \in CallSlots : DetachedThreadDone(c)
    \/ \E s \in Sessions, p \in Paths, c \in Content : write_file(s, p, c)
    \/ \E s \in Sessions, p \in Paths : delete_file(s, p)

SpecCancel == Init /\ [][CancelNext]_vars

\* C37: the lock is held as long as the git command of an end or abort runs,
\* also when the request that started it has been cancelled.
C37_LockHeldWhileGitRuns ==
    \A c \in 1..Len(calls) : calls[c].th = "running" => locked

\* ------------------------------------------------------- waiters of the lock
\* Sessions whose lock_wait budget is long enough: a start_transaction that
\* waits may time out as long as it has not been woken, and once the lock has
\* been handed to it the event loop resumes it (it is an asyncio task whose
\* future has a result): hence the weak fairness of StartWaiterGranted.  The
\* sessions do not write, so that no commit succeeds and no push follows: the
\* working tree plays no part in the hand-over.
WaiterNext ==
    \/ \E s \in Sessions : start_transaction(s)
    \/ StartWaiterGranted
    \/ \E i \in 1..MaxWaiters :
          i <= Len(waiters) /\ ~waiters[i].woken /\ StartWaiterTimeout(i)
    \/ \E s \in Sessions : commit_content_transaction(s)
    \/ \E s \in Sessions : abort_transaction(s)
    \/ \E c \in CallSlots, ok \in BOOLEAN : CallThreadRun(c, ok)
    \/ \E c \in CallSlots : CallFinally(c)
    \/ \E t \in TxnIds : DeadlineFire(t)
    \/ \E t \in TxnIds, ok \in BOOLEAN : DeadlineThreadRun(t, ok)
    \/ \E t \in TxnIds : DeadlineCleanup(t)
    \/ \E ok \in BOOLEAN : OrphanThreadRun(ok)

\* A transaction id stays in use until the calls and the deadline task that
\* hold it have returned; worker threads finish, timers fire and the event
\* loop resumes the coroutines that await them.
SpecWaiter ==
    /\ Init /\ [][WaiterNext]_vars
    /\ WF_vars(StartWaiterGranted)
    /\ WF_vars(\E c \in CallSlots, ok \in BOOLEAN : CallThreadRun(c, ok))
    /\ WF_vars(\E c \in CallSlots : CallFinally(c))
    /\ WF_vars(\E t \in TxnIds : DeadlineFire(t))
    /\ WF_vars(\E t \in TxnIds, ok \in BOOLEAN : DeadlineThreadRun(t, ok))
    /\ WF_vars(\E t \in TxnIds : DeadlineCleanup(t))

ResumeNext ==
    \/ WaiterNext
    \/ SyncTick
    \/ \E ok \in BOOLEAN : SyncSleep(ok)

\* main.py 266-271: the loop's task exists only with GIT_SYNC_ENABLED.
ResumeInit == Init /\ GIT_SYNC_ENABLED = TRUE

SpecResume ==
    /\ ResumeInit
    /\ [][ResumeNext]_vars
    /\ WF_vars(SyncTick)
    /\ WF_vars(\E ok \in BOOLEAN : SyncSleep(ok))
    /\ WF_vars(StartWaiterGranted)
    /\ WF_vars(\E c \in CallSlots, ok \in BOOLEAN : CallThreadRun(c, ok))
    /\ WF_vars(\E c \in CallSlots : CallFinally(c))
    /\ WF_vars(\E t \in TxnIds : DeadlineFire(t))
    /\ WF_vars(\E t \in TxnIds, ok \in BOOLEAN : DeadlineThreadRun(t, ok))
    /\ WF_vars(\E t \in TxnIds : DeadlineCleanup(t))

\* C39: the sync flag is set whenever no transaction is recorded and whenever
\* the lock is free, and either transactions are started again and again or
\* the sync loop starts a pull again and again.
C39_SyncResumes ==
    /\ [](active_id = NoTxn => sync_event)
    /\ [](~locked => sync_event)
    /\ \/ []<><<\E s \in Sessions : StartGranted(s)>>_vars
       \/ []<>(syncPc = "pull_running" /\ sync_event)

\* A transaction has been aborted, nothing of it is left, and the loop pulls.
C39_Witness ==
    /\ result = Outcome("abort", "ok")
    /\ active_id = NoTxn
    /\ ~locked
    /\ calls = <<>>
    /\ \A t \in TxnIds : deadline[t] = NoTask
    /\ sync_event
    /\ syncPc = "pull_running"

====
